---- MODULE Spec2Model ----
(***************************************************************************)
(* Model of the artifact persistence layer of tfhe-rs:                     *)
(*   - tfhe/src/safe_serialization.rs : the serialization envelope         *)
(*     (SerializationConfig::serialize_into,                               *)
(*      DeserializationConfig::deserialize_from, SerializationHeader)      *)
(*   - tfhe-zk-pok/src/serialization.rs : the field / curve point codec    *)
(*     (SerializableFp, SerializableAffine, SerializablePublicParams)      *)
(*   - core_crypto/backward_compatibility/entities and                     *)
(*     tfhe-zk-pok/src/backward_compatibility : the dispatch enums and     *)
(*     upgrades of the versioning engine                                   *)
(***************************************************************************)
EXTENDS Integers, Sequences, FiniteSets, TLC

VARIABLES
    pc,            \* envelope: "configure" -> "serialized" -> "done"
    ser_config,    \* the SerializationConfig value held by the caller
    deser_config,  \* the DeserializationConfig value held by the caller
    ser_call,      \* arguments of the serialize_into call (object, running build)
    ser_result,    \* what serialize_into returned
    writer,        \* what serialize_into wrote into the writer
    de_call,       \* arguments of the deserialize_from call (type T, running build)
    de_result,     \* what deserialize_from returned
    point,         \* codec: the curve point / serialized point being converted
    ser_point,     \* codec: the SerializableAffine value
    point_result,  \* codec: result of the last conversion
    fp,            \* field codec: the field element being encoded
    ser_fp,        \* field codec: the SerializableFp value
    fp_result,     \* field codec: result of decoding ser_fp
    ser_params,    \* field codec: the SerializablePublicParams value
    params_result, \* field codec: result of converting ser_params
    ver_value,     \* versioning: the value handed to versionize / written by an old build
    ver_tagged,    \* versioning: the tagged (dispatch enum) value
    ver_result     \* versioning: what unversionize returned

env_vars == <<pc, ser_config, deser_config, ser_call, ser_result, writer, de_call, de_result>>
codec_vars == <<point, ser_point, point_result>>
field_vars == <<fp, ser_fp, fp_result, ser_params, params_result>>
version_vars == <<ver_value, ver_tagged, ver_result>>
vars == <<pc, ser_config, deser_config, ser_call, ser_result, writer, de_call, de_result,
          point, ser_point, point_result,
          fp, ser_fp, fp_result, ser_params, params_result,
          ver_value, ver_tagged, ver_result>>

---------------------------------------------------------------------------
(* Bounds of the model *)

\* objects are lists of 1..MaxElems elements
MaxElems == 3
\* the small caller-supplied size limit (below HEADER_LENGTH_LIMIT) that is explored
SmallLimit == 10

---------------------------------------------------------------------------
(* u64 arithmetic: a u64 is four 16-bit limbs, least significant first *)

LimbBase == 65536

U64(n) == <<n % LimbBase, (n \div LimbBase) % LimbBase, 0, 0>>

RECURSIVE U64GeqFrom(_, _, _)
U64GeqFrom(a, b, i) ==
    IF i = 0 THEN TRUE
    ELSE IF a[i] > b[i] THEN TRUE
    ELSE IF a[i] < b[i] THEN FALSE
    ELSE U64GeqFrom(a, b, i - 1)

U64Geq(a, b) == U64GeqFrom(a, b, 4)

\* a - b modulo 2^64 (what `-` on u64 computes when overflow checks are off)
U64WrappingSub(a, b) ==
    LET d1 == a[1] - b[1]
        c1 == IF d1 < 0 THEN 1 ELSE 0
        d2 == a[2] - b[2] - c1
        c2 == IF d2 < 0 THEN 1 ELSE 0
        d3 == a[3] - b[3] - c2
        c3 == IF d3 < 0 THEN 1 ELSE 0
        d4 == a[4] - b[4] - c3
    IN  <<(d1 + LimbBase) % LimbBase, (d2 + LimbBase) % LimbBase,
          (d3 + LimbBase) % LimbBase, (d4 + LimbBase) % LimbBase>>

---------------------------------------------------------------------------
(* Constants of safe_serialization.rs *)

SERIALIZATION_VERSION == "0.5"
VERSIONING_VERSION == "0.1"
HEADER_LENGTH_LIMIT == 1000

\* A build of the library: CRATE_VERSION is taken from the package version at
\* compile time, VERSIONING_VERSION is the constant of that release, and
\* overflow_checks is the compiler setting that decides what `-` on u64 does
\* when the result would be negative (panic, or wrap modulo 2^64).
Builds ==
    { [crate_version |-> "0.8", versioning_version |-> VERSIONING_VERSION, overflow_checks |-> FALSE],
      [crate_version |-> "0.8", versioning_version |-> VERSIONING_VERSION, overflow_checks |-> TRUE],
      [crate_version |-> "0.9", versioning_version |-> VERSIONING_VERSION, overflow_checks |-> FALSE],
      [crate_version |-> "0.9", versioning_version |-> "0.2", overflow_checks |-> FALSE] }

---------------------------------------------------------------------------
(* Objects, their names and their conformance *)

TypeNames == {"shortint::Ciphertext", "high_level_api::CompactCiphertextList"}
ShortintParams == {"PARAM_MESSAGE_2_CARRY_2_KS_PBS", "PARAM_MESSAGE_3_CARRY_3_KS_PBS"}

Objects == [name : TypeNames, shortint_params : ShortintParams, num_elements : 1..MaxElems]
NoObject == [name |-> "", shortint_params |-> "", num_elements |-> 0]

exact_size(k) == [min |-> k, max |-> k]
size_in_range(a, b) == [min |-> a, max |-> b]
\* the constraints explored reach two elements past the longest list
ListSizeConstraints ==
    {exact_size(k) : k \in 1..(MaxElems + 2)}
      \cup {size_in_range(c[1], c[2]) :
              c \in {d \in (1..(MaxElems + 2)) \X (1..(MaxElems + 2)) : d[1] < d[2]}}
ConformanceParams ==
    [shortint_params : ShortintParams, num_elements_constraint : ListSizeConstraints]

is_valid(constraint, n) == constraint.min <= n /\ n <= constraint.max

is_conformant(object, parameter_set) ==
    /\ object.shortint_params = parameter_set.shortint_params
    /\ is_valid(parameter_set.num_elements_constraint, object.num_elements)

---------------------------------------------------------------------------
(* The binary codec (bincode, fixed-width integers, byte limit) *)

\* Bounded(limit).add(n): n more bytes are allowed iff limit >= n.
\* with_limit(0) is a budget of zero bytes.
WithinLimit(limit, n) == U64Geq(limit, U64(n))

\* a string is an 8-byte length followed by its bytes; an enum discriminant is 4 bytes
StringSize(s) == 8 + Len(s)
HeaderSize(h) ==
    StringSize(h.header_version) + 4 + StringSize(h.versioning_version) + StringSize(h.name)

\* an object is encoded as an 8-byte element count followed by one byte per element
RawSize(object) == 8 + object.num_elements

---------------------------------------------------------------------------
(* The versioning engine as the envelope uses it *)

LatestTag == 0

Versionize(object) == [tag |-> LatestTag, value |-> object]

\* the versioned representation adds the 4-byte discriminant of the dispatch enum
VersionedSize(v) == 4 + RawSize(v.value)

Unversionize(v) ==
    IF v.tag = LatestTag
    THEN [ok |-> TRUE, value |-> v.value]
    ELSE [ok |-> FALSE, value |-> NoObject]

---------------------------------------------------------------------------
(* SerializationHeader *)

new_versioned(build, name) ==
    [header_version |-> SERIALIZATION_VERSION,
     versioning_mode |-> "Versioned",
     versioning_version |-> build.versioning_version,
     name |-> name]

new_unversioned(build, name) ==
    [header_version |-> SERIALIZATION_VERSION,
     versioning_mode |-> "Unversioned",
     versioning_version |-> build.crate_version,
     name |-> name]

HeaderOk == [ok |-> TRUE, error |-> "", expected |-> "", got |-> ""]
HeaderErr(kind, expected, got) == [ok |-> FALSE, error |-> kind, expected |-> expected, got |-> got]

\* validate with the producer-version check of unversioned artifacts left out
validate_without_crate_check(build, header, T) ==
    IF header.versioning_mode = "Versioned" /\ header.versioning_version # build.versioning_version
    THEN HeaderErr("VersioningSchemeMismatch", build.versioning_version, header.versioning_version)
    ELSE IF header.name # T
    THEN HeaderErr("TypeMismatch", T, header.name)
    ELSE HeaderOk

\* validate comparing a versioned artifact with CRATE_VERSION instead of VERSIONING_VERSION
validate_versioned_by_crate(build, header, T) ==
    IF header.versioning_mode = "Versioned" /\ header.versioning_version # build.crate_version
    THEN HeaderErr("VersioningSchemeMismatch", build.crate_version, header.versioning_version)
    ELSE IF header.versioning_mode # "Versioned" /\ header.versioning_version # build.crate_version
    THEN HeaderErr("UnversionedFromOtherVersion", build.crate_version, header.versioning_version)
    ELSE IF header.name # T
    THEN HeaderErr("TypeMismatch", T, header.name)
    ELSE HeaderOk

\* validate refusing a header of another format version first
validate_checking_header_version(build, header, T) ==
    IF header.header_version # SERIALIZATION_VERSION
    THEN HeaderErr("HeaderVersionMismatch", SERIALIZATION_VERSION, header.header_version)
    ELSE IF header.versioning_mode = "Versioned" /\ header.versioning_version # build.versioning_version
    THEN HeaderErr("VersioningSchemeMismatch", build.versioning_version, header.versioning_version)
    ELSE IF header.versioning_mode # "Versioned" /\ header.versioning_version # build.crate_version
    THEN HeaderErr("UnversionedFromOtherVersion", build.crate_version, header.versioning_version)
    ELSE IF header.name # T
    THEN HeaderErr("TypeMismatch", T, header.name)
    ELSE HeaderOk

\* SerializationHeader::validate::<T>() in the running build
validate(build, header, T) ==
    IF header.versioning_mode = "Versioned" /\ header.versioning_version # build.versioning_version
    THEN HeaderErr("VersioningSchemeMismatch", build.versioning_version, header.versioning_version)
    ELSE IF header.versioning_mode # "Versioned" /\ header.versioning_version # build.crate_version
    THEN HeaderErr("UnversionedFromOtherVersion", build.crate_version, header.versioning_version)
    ELSE IF header.name # T
    THEN HeaderErr("TypeMismatch", T, header.name)
    ELSE HeaderOk

---------------------------------------------------------------------------
(* SerializationConfig *)

SerializationConfig_new(serialized_size_limit) ==
    [versioned |-> "Versioned", serialized_size_limit |-> serialized_size_limit]

SerializationConfig_new_with_unlimited_size ==
    [versioned |-> "Versioned", serialized_size_limit |-> 0]

SerializationConfig_disable_size_limit(config) ==
    [config EXCEPT !.serialized_size_limit = 0]

\* disable_versioning going back to the default size limit as well
disable_versioning_resetting_limit(config) ==
    [versioned |-> "Unversioned", serialized_size_limit |-> 0]

disable_versioning(config) ==
    [config EXCEPT !.versioned = "Unversioned"]

create_header(config, build, name) ==
    IF config.versioned = "Versioned"
    THEN new_versioned(build, name)
    ELSE new_unversioned(build, name)

SerializationConfig_header_length_limit(config) ==
    IF config.serialized_size_limit = 0 THEN 0 ELSE HEADER_LENGTH_LIMIT

HeaderSegment(header) ==
    [seg |-> "header", header |-> header, size |-> HeaderSize(header)]

\* the payload as it is written: object.versionize() in Versioned mode, the object otherwise
PayloadSegment(config, object) ==
    IF config.versioned = "Versioned"
    THEN [seg |-> "payload", repr |-> "versioned", content |-> Versionize(object),
          size |-> VersionedSize(Versionize(object))]
    ELSE [seg |-> "payload", repr |-> "raw", content |-> object, size |-> RawSize(object)]

\* serialize_into handing the writer nothing unless the whole artifact fits
serialize_into_all_or_nothing(config, build, object) ==
    LET header == create_header(config, build, object.name)
        header_seg == HeaderSegment(header)
        payload_seg == PayloadSegment(config, object)
    IN  IF ~WithinLimit(U64(SerializationConfig_header_length_limit(config)), header_seg.size)
        THEN [result |-> "SizeLimit", written |-> <<>>]
        ELSE IF ~WithinLimit(U64(config.serialized_size_limit), payload_seg.size)
        THEN [result |-> "SizeLimit", written |-> <<>>]
        ELSE [result |-> "Ok", written |-> <<header_seg, payload_seg>>]

\* SerializationConfig::serialize_into: the result and the bytes the writer received.
\* bincode checks the size of a value against the limit before it writes any of it.
serialize_into(config, build, object) ==
    LET header == create_header(config, build, object.name)
        header_seg == HeaderSegment(header)
        payload_seg == PayloadSegment(config, object)
    IN  IF ~WithinLimit(U64(SerializationConfig_header_length_limit(config)), header_seg.size)
        THEN [result |-> "SizeLimit", written |-> <<>>]
        ELSE IF ~WithinLimit(U64(config.serialized_size_limit), payload_seg.size)
        THEN [result |-> "SizeLimit", written |-> <<header_seg>>]
        ELSE [result |-> "Ok", written |-> <<header_seg, payload_seg>>]

---------------------------------------------------------------------------
(* DeserializationConfig *)

Unchecked == [mode |-> "Unchecked"]
Checked(parameter_set) == [mode |-> "Checked", parameter_set |-> parameter_set]

DeserializationConfig_new(serialized_size_limit, conformance_params) ==
    [serialized_size_limit |-> serialized_size_limit,
     validate_header |-> TRUE,
     conformance |-> Checked(conformance_params)]

DeserializationConfig_new_with_unlimited_size(conformance_params) ==
    [serialized_size_limit |-> 0,
     validate_header |-> TRUE,
     conformance |-> Checked(conformance_params)]

DeserializationConfig_disable_size_limit(config) ==
    [config EXCEPT !.serialized_size_limit = 0]

disable_header_validation(config) ==
    [config EXCEPT !.validate_header = FALSE]

new_without_conformance(serialized_size_limit) ==
    [serialized_size_limit |-> serialized_size_limit,
     validate_header |-> TRUE,
     conformance |-> Unchecked]

disable_conformance_check(config) ==
    [config EXCEPT !.conformance = Unchecked]

new_unsafe ==
    [serialized_size_limit |-> 0, validate_header |-> FALSE, conformance |-> Unchecked]

DeserializationConfig_header_length_limit(config) ==
    IF config.serialized_size_limit = 0 THEN 0 ELSE HEADER_LENGTH_LIMIT

\* self.serialized_size_limit - self.header_length_limit() on u64: when the
\* difference is negative a build with overflow checks panics and a build
\* without them wraps modulo 2^64.
payload_limit(config, build) ==
    LET limit == U64(config.serialized_size_limit)
        header_limit == U64(DeserializationConfig_header_length_limit(config))
    IN  IF ~U64Geq(limit, header_limit) /\ build.overflow_checks
        THEN [panic |-> TRUE, limit |-> <<>>]
        ELSE [panic |-> FALSE, limit |-> U64WrappingSub(limit, header_limit)]

NoBudget == <<>>

DeResult(status, error, object, stages, budget, header_check) ==
    [status |-> status, error |-> error, object |-> object, stages |-> stages,
     budget |-> budget, header_check |-> header_check]

\* decode of the payload bytes as the type T: the bytes of an object of another
\* type either fail to parse or are read as some value of T
decode_as(T, object, reinterpret) ==
    IF object.name = T THEN [ok |-> TRUE, value |-> object]
    ELSE IF reinterpret THEN [ok |-> TRUE, value |-> [object EXCEPT !.name = T]]
    ELSE [ok |-> FALSE, value |-> NoObject]

\* the conformance stage checking the size constraint only
conformance_check_size_only(config, deser, stages, budget, header_check) ==
    IF config.conformance.mode = "Checked"
    THEN IF ~is_valid(config.conformance.parameter_set.num_elements_constraint,
                      deser.num_elements)
         THEN DeResult("Err", "NotConformant", NoObject, Append(stages, "conformance"),
                       budget, header_check)
         ELSE DeResult("Ok", "", deser, Append(stages, "conformance"), budget, header_check)
    ELSE DeResult("Ok", "", deser, stages, budget, header_check)

\* the conformance stage of deserialize_from
conformance_check(config, deser, stages, budget, header_check) ==
    IF config.conformance.mode = "Checked"
    THEN IF ~is_conformant(deser, config.conformance.parameter_set)
         THEN DeResult("Err", "NotConformant", NoObject, Append(stages, "conformance"),
                       budget, header_check)
         ELSE DeResult("Ok", "", deser, Append(stages, "conformance"), budget, header_check)
    ELSE DeResult("Ok", "", deser, stages, budget, header_check)

\* the payload stage of deserialize_from, after the header has been accepted
payload_decode(config, build, T, reader, header, reinterpret, stages0, header_check) ==
    LET budget == payload_limit(config, build)
        stages == Append(stages0, "payload_decode")
    IN  IF budget.panic
        THEN DeResult("Panic", "SubtractWithOverflow", NoObject, stages0, NoBudget, header_check)
        ELSE IF Len(reader) < 2
        THEN DeResult("Err", "Io", NoObject, stages, budget.limit, header_check)
        ELSE IF ~WithinLimit(budget.limit, reader[2].size)
        THEN DeResult("Err", "SizeLimit", NoObject, stages, budget.limit, header_check)
        ELSE IF header.versioning_mode = "Versioned"
        THEN IF reader[2].repr # "versioned"
             THEN DeResult("Err", "Malformed", NoObject, stages, budget.limit, header_check)
             ELSE LET decoded == decode_as(T, reader[2].content.value, reinterpret)
                      deser_versioned == [tag |-> reader[2].content.tag, value |-> decoded.value]
                      upgraded == Unversionize(deser_versioned)
                  IN  IF ~decoded.ok
                      THEN DeResult("Err", "Malformed", NoObject, stages, budget.limit, header_check)
                      ELSE IF ~upgraded.ok
                      THEN DeResult("Err", "Upgrade", NoObject, Append(stages, "unversionize"),
                                    budget.limit, header_check)
                      ELSE conformance_check(config, upgraded.value,
                                             Append(stages, "unversionize"), budget.limit,
                                             header_check)
        ELSE IF reader[2].repr # "raw"
             THEN DeResult("Err", "Malformed", NoObject, stages, budget.limit, header_check)
             ELSE LET decoded == decode_as(T, reader[2].content, reinterpret)
                  IN  IF ~decoded.ok
                      THEN DeResult("Err", "Malformed", NoObject, stages, budget.limit, header_check)
                      ELSE conformance_check(config, decoded.value, stages, budget.limit,
                                             header_check)

\* deserialize_from going on to the payload after a failed header validation
deserialize_from_past_validation(config, build, T, reader, reinterpret) ==
    LET header_limit == U64(DeserializationConfig_header_length_limit(config))
        stages1 == <<"header_decode">>
    IN  IF Len(reader) < 1
        THEN DeResult("Err", "Io", NoObject, stages1, NoBudget, HeaderOk)
        ELSE IF ~WithinLimit(header_limit, reader[1].size)
        THEN DeResult("Err", "SizeLimit", NoObject, stages1, NoBudget, HeaderOk)
        ELSE LET deserialized_header == reader[1].header
                 header_check == IF config.validate_header
                                 THEN validate(build, deserialized_header, T)
                                 ELSE HeaderOk
                 stages2 == IF config.validate_header
                            THEN Append(stages1, "validate") ELSE stages1
             IN  payload_decode(config, build, T, reader, deserialized_header,
                                reinterpret, stages2, header_check)

\* deserialize_from validating the header whatever the configuration says
deserialize_from_always_validating(config, build, T, reader, reinterpret) ==
    LET header_limit == U64(DeserializationConfig_header_length_limit(config))
        stages1 == <<"header_decode">>
    IN  IF Len(reader) < 1
        THEN DeResult("Err", "Io", NoObject, stages1, NoBudget, HeaderOk)
        ELSE IF ~WithinLimit(header_limit, reader[1].size)
        THEN DeResult("Err", "SizeLimit", NoObject, stages1, NoBudget, HeaderOk)
        ELSE LET deserialized_header == reader[1].header
                 header_check == validate(build, deserialized_header, T)
                 stages2 == Append(stages1, "validate")
             IN  IF ~header_check.ok
                 THEN DeResult("Err", header_check.error, NoObject, stages2, NoBudget,
                               header_check)
                 ELSE payload_decode(config, build, T, reader, deserialized_header,
                                     reinterpret, stages2, header_check)

\* DeserializationConfig::deserialize_from::<T>(reader) in the running build
deserialize_from(config, build, T, reader, reinterpret) ==
    LET header_limit == U64(DeserializationConfig_header_length_limit(config))
        stages1 == <<"header_decode">>
    IN  IF Len(reader) < 1
        THEN DeResult("Err", "Io", NoObject, stages1, NoBudget, HeaderOk)
        ELSE IF ~WithinLimit(header_limit, reader[1].size)
        THEN DeResult("Err", "SizeLimit", NoObject, stages1, NoBudget, HeaderOk)
        ELSE LET deserialized_header == reader[1].header
                 header_check == IF config.validate_header
                                 THEN validate(build, deserialized_header, T)
                                 ELSE HeaderOk
                 stages2 == IF config.validate_header
                            THEN Append(stages1, "validate") ELSE stages1
             IN  IF ~header_check.ok
                 THEN DeResult("Err", header_check.error, NoObject, stages2, NoBudget,
                               header_check)
                 ELSE payload_decode(config, build, T, reader, deserialized_header,
                                     reinterpret, stages2, header_check)

---------------------------------------------------------------------------
(* The field / curve point codec (tfhe-zk-pok/src/serialization.rs)         *)

\* the prime field Fp<P, N>: N limbs per element, the modulus of P, and the
\* short Weierstrass curve y^2 = x^3 + COEFF_A x + COEFF_B of C
FpLimbs == 2
FieldModulus == 11
COEFF_A == 0
COEFF_B == 1
\* a limb holds a value below FpLimbBase
FpLimbBase == 4

RECURSIVE Pow(_, _)
Pow(b, e) == IF e = 0 THEN 1 ELSE b * Pow(b, e - 1)

\* value.0 .0.to_vec(): the N limbs of the big integer, least significant first
to_vec(v) == [i \in 1..FpLimbs |-> (v \div Pow(FpLimbBase, i - 1)) % FpLimbBase]

RECURSIVE BigInt(_)
BigInt(limbs) ==
    IF limbs = <<>> THEN 0
    ELSE Head(limbs) + FpLimbBase * BigInt(Tail(limbs))

\* try_vec_to_array::<T, N>(vec)
try_vec_to_array_sized(vec, N) ==
    LET len == Len(vec)
    IN  IF len = N
        THEN [ok |-> TRUE, array |-> vec, expected_len |-> 0, found_len |-> 0]
        ELSE [ok |-> FALSE, array |-> <<>>, expected_len |-> len, found_len |-> N]

\* a conversion that keeps the first N elements of a longer vec
try_vec_to_array_truncating(vec) ==
    IF Len(vec) >= FpLimbs
    THEN [ok |-> TRUE, array |-> SubSeq(vec, 1, FpLimbs), expected_len |-> 0, found_len |-> 0]
    ELSE try_vec_to_array_sized(vec, FpLimbs)

\* try_vec_to_array::<u64, N>(vec) for the N limbs of Fp<P, N>
try_vec_to_array(vec) == try_vec_to_array_sized(vec, FpLimbs)

\* From<Fp<P, N>> for SerializableFp
SerializableFp_from(value) == [val |-> to_vec(value)]

\* TryFrom<SerializableFp> for Fp<P, N>: the limbs are taken as they are
Fp_try_from(value) ==
    LET array == try_vec_to_array(value.val)
    IN  IF array.ok
        THEN [ok |-> TRUE, fp |-> BigInt(array.array), expected_len |-> 0, found_len |-> 0]
        ELSE [ok |-> FALSE, fp |-> 0, expected_len |-> array.expected_len,
              found_len |-> array.found_len]

\* field arithmetic and the field's total order (the order of the integers)
FpNeg(y) == (FieldModulus - (y % FieldModulus)) % FieldModulus
FpMul(a, b) == ((a % FieldModulus) * (b % FieldModulus)) % FieldModulus
FpAdd(a, b) == ((a % FieldModulus) + (b % FieldModulus)) % FieldModulus

x3_plus_ax_plus_b(x) == FpAdd(FpAdd(FpMul(FpMul(x, x), x), FpMul(COEFF_A, x)), COEFF_B)

SquareRoots(v) == {r \in 0..(FieldModulus - 1) : FpMul(r, r) = v}

\* Field::sqrt: one of the square roots, or None
sqrt(v) ==
    IF SquareRoots(v) = {} THEN [some |-> FALSE, y |-> 0]
    ELSE [some |-> TRUE, y |-> CHOOSE r \in SquareRoots(v) : TRUE]

is_on_curve(x, y) == FpMul(y, y) = x3_plus_ax_plus_b(x)

\* Affine<C>
zero == [infinity |-> TRUE, x |-> 0, y |-> 0]
\* a constructor that keeps only the pairs that are on the curve
new_on_curve(x, y) ==
    IF is_on_curve(x, y) THEN [infinity |-> FALSE, x |-> x, y |-> y] ELSE zero

new_unchecked(x, y) == [infinity |-> FALSE, x |-> x, y |-> y]

\* get_ys_from_x_unchecked taking a missing square root for zero
get_ys_from_x_unchecked_unwrapped(x) ==
    LET root == sqrt(x3_plus_ax_plus_b(x))
        y == root.y
        neg_y == FpNeg(y)
    IN  IF y < neg_y THEN [some |-> TRUE, smaller |-> y, larger |-> neg_y]
        ELSE [some |-> TRUE, smaller |-> neg_y, larger |-> y]

\* Affine::get_ys_from_x_unchecked: (smaller, larger) or None
get_ys_from_x_unchecked(x) ==
    LET root == sqrt(x3_plus_ax_plus_b(x))
        y == root.y
        neg_y == FpNeg(y)
    IN  IF ~root.some THEN [some |-> FALSE, smaller |-> 0, larger |-> 0]
        ELSE IF y < neg_y THEN [some |-> TRUE, smaller |-> y, larger |-> neg_y]
        ELSE [some |-> TRUE, smaller |-> neg_y, larger |-> y]

\* get_point_from_x_unchecked reading the flag the other way round
get_point_from_x_unchecked_inverted(x, greatest) ==
    LET ys == get_ys_from_x_unchecked(x)
    IN  IF ~ys.some THEN [some |-> FALSE, point |-> zero]
        ELSE IF greatest THEN [some |-> TRUE, point |-> new_unchecked(x, ys.smaller)]
        ELSE [some |-> TRUE, point |-> new_unchecked(x, ys.larger)]

\* Affine::get_point_from_x_unchecked(x, greatest)
get_point_from_x_unchecked(x, greatest) ==
    LET ys == get_ys_from_x_unchecked(x)
    IN  IF ~ys.some THEN [some |-> FALSE, point |-> zero]
        ELSE IF greatest THEN [some |-> TRUE, point |-> new_unchecked(x, ys.larger)]
        ELSE [some |-> TRUE, point |-> new_unchecked(x, ys.smaller)]

\* SerializableAffine<F>
Infinity == [tag |-> "Infinity"]
Compressed(x, take_largest_y) == [tag |-> "Compressed", x |-> x, take_largest_y |-> take_largest_y]
Uncompressed(x, y) == [tag |-> "Uncompressed", x |-> x, y |-> y]

\* SerializableAffine::uncompressed(value)
uncompressed(value) ==
    IF value.infinity THEN Infinity
    ELSE Uncompressed(SerializableFp_from(value.x), SerializableFp_from(value.y))

\* compressed with the sign bit computed against the wrong root
compressed_smaller_y(value) ==
    IF value.infinity THEN Infinity
    ELSE LET take_largest_y == value.y < FpNeg(value.y)
         IN  Compressed(SerializableFp_from(value.x), take_largest_y)

\* SerializableAffine::compressed(value)
compressed(value) ==
    IF value.infinity THEN Infinity
    ELSE LET take_largest_y == value.y > FpNeg(value.y)
         IN  Compressed(SerializableFp_from(value.x), take_largest_y)

AffineOk(p) == [tag |-> "Ok", point |-> p, error |-> "", expected_len |-> 0, found_len |-> 0]
AffineErr(error, expected_len, found_len) ==
    [tag |-> "Err", point |-> zero, error |-> error, expected_len |-> expected_len,
     found_len |-> found_len]

\* TryFrom<SerializableAffine<F>> for Affine<C>
Affine_try_from(value) ==
    IF value.tag = "Infinity" THEN AffineOk(zero)
    ELSE IF value.tag = "Compressed"
    THEN LET x == Fp_try_from(value.x)
             found == get_point_from_x_unchecked(x.fp, value.take_largest_y)
         IN  IF ~x.ok THEN AffineErr("InvalidFp", x.expected_len, x.found_len)
             ELSE IF ~found.some THEN AffineErr("InvalidCompressedXCoordinate", 0, 0)
             ELSE AffineOk(found.point)
    ELSE LET x == Fp_try_from(value.x)
             y == Fp_try_from(value.y)
         IN  IF ~x.ok THEN AffineErr("InvalidFp", x.expected_len, x.found_len)
             ELSE IF ~y.ok THEN AffineErr("InvalidFp", y.expected_len, y.found_len)
             ELSE AffineOk(new_unchecked(x.fp, y.fp))

---------------------------------------------------------------------------
(* PublicParams (tfhe-zk-pok/src/serialization.rs)                           *)

\* length of the hash arrays of PublicParams
HashLen == 2

\* the ten hash fields of SerializablePublicParams, in the order in which
\* try_from converts them
HashFields == <<"hash", "hash_R", "hash_t", "hash_w", "hash_agg", "hash_lmap", "hash_phi",
                "hash_xi", "hash_z", "hash_chi">>

\* TryFrom<SerializablePublicParams<G>> for PublicParams<G>: the first hash
\* of the wrong size gives the error
PublicParams_try_from(value) ==
    LET arrays == [i \in 1..Len(HashFields) |-> try_vec_to_array_sized(value.hashes[i], HashLen)]
        failed == {i \in 1..Len(HashFields) : ~arrays[i].ok}
    IN  IF failed = {}
        THEN [ok |-> TRUE, hashes |-> [i \in 1..Len(HashFields) |-> arrays[i].array],
              expected_len |-> 0, found_len |-> 0]
        ELSE LET first == CHOOSE i \in failed : \A j \in failed : i <= j
             IN  [ok |-> FALSE, hashes |-> <<>>, expected_len |-> arrays[first].expected_len,
                  found_len |-> arrays[first].found_len]

---------------------------------------------------------------------------

(* The envelope as a state machine: a caller builds a SerializationConfig,   *)
(* serializes an object, builds a DeserializationConfig and deserializes    *)
(* the written bytes as a type T, possibly with another build of the library *)

\* the caller-supplied limits that are explored: zero, a limit below the
\* header ceiling, and a limit above the header ceiling
SizeLimits == {0, SmallLimit, HEADER_LENGTH_LIMIT + SmallLimit}

\* serialize_into subtracts nothing: builds that differ in overflow checks only
\* are the same producer
ProducerBuilds == {b \in Builds : ~b.overflow_checks}

NoSerCall == [object |-> NoObject, build |-> CHOOSE b \in ProducerBuilds : TRUE]
NoDeCall == [T |-> "", build |-> CHOOSE b \in ProducerBuilds : TRUE]
NoDeResult == DeResult("None", "", NoObject, <<>>, NoBudget, HeaderOk)

NoPoint == [tag |-> "None"]

InitCodecIdle ==
    /\ point = NoPoint
    /\ ser_point = NoPoint
    /\ point_result = NoPoint

NoValue == [tag |-> "None"]

InitFieldIdle ==
    /\ fp = NoValue
    /\ ser_fp = NoValue
    /\ fp_result = NoValue
    /\ ser_params = NoValue
    /\ params_result = NoValue

InitVersionIdle ==
    /\ ver_value = NoValue
    /\ ver_tagged = NoValue
    /\ ver_result = NoValue

InitEnvelopeIdle ==
    /\ ser_config = SerializationConfig_new_with_unlimited_size
    /\ deser_config = new_unsafe
    /\ ser_call = NoSerCall
    /\ ser_result = "None"
    /\ writer = <<>>
    /\ de_call = NoDeCall
    /\ de_result = NoDeResult

Init ==
    /\ pc = "configure"
    /\ ser_config = SerializationConfig_new_with_unlimited_size
    /\ deser_config = new_unsafe
    /\ ser_call = NoSerCall
    /\ ser_result = "None"
    /\ writer = <<>>
    /\ de_call = NoDeCall
    /\ de_result = NoDeResult
    /\ InitCodecIdle
    /\ InitFieldIdle
    /\ InitVersionIdle

SerNew ==
    /\ pc = "configure"
    /\ \E limit \in SizeLimits : ser_config' = SerializationConfig_new(limit)
    /\ UNCHANGED <<pc, deser_config, ser_call, ser_result, writer, de_call, de_result>>
    /\ UNCHANGED <<codec_vars, field_vars, version_vars>>

SerNewWithUnlimitedSize ==
    /\ pc = "configure"
    /\ ser_config' = SerializationConfig_new_with_unlimited_size
    /\ UNCHANGED <<pc, deser_config, ser_call, ser_result, writer, de_call, de_result>>
    /\ UNCHANGED <<codec_vars, field_vars, version_vars>>

SerDisableSizeLimit ==
    /\ pc = "configure"
    /\ ser_config' = SerializationConfig_disable_size_limit(ser_config)
    /\ UNCHANGED <<pc, deser_config, ser_call, ser_result, writer, de_call, de_result>>
    /\ UNCHANGED <<codec_vars, field_vars, version_vars>>

SerDisableVersioning ==
    /\ pc = "configure"
    /\ ser_config' = disable_versioning(ser_config)
    /\ UNCHANGED <<pc, deser_config, ser_call, ser_result, writer, de_call, de_result>>
    /\ UNCHANGED <<codec_vars, field_vars, version_vars>>

SerializeInto ==
    /\ pc = "configure"
    /\ \E build \in ProducerBuilds, object \in Objects :
         LET out == serialize_into(ser_config, build, object)
         IN  /\ ser_call' = [object |-> object, build |-> build]
             /\ ser_result' = out.result
             /\ writer' = out.written
    /\ pc' = "serialized"
    /\ UNCHANGED <<ser_config, deser_config, de_call, de_result>>
    /\ UNCHANGED <<codec_vars, field_vars, version_vars>>

DeNew ==
    /\ pc = "serialized"
    /\ \E limit \in SizeLimits, p \in ConformanceParams :
         deser_config' = DeserializationConfig_new(limit, p)
    /\ UNCHANGED <<pc, ser_config, ser_call, ser_result, writer, de_call, de_result>>
    /\ UNCHANGED <<codec_vars, field_vars, version_vars>>

DeNewWithUnlimitedSize ==
    /\ pc = "serialized"
    /\ \E p \in ConformanceParams :
         deser_config' = DeserializationConfig_new_with_unlimited_size(p)
    /\ UNCHANGED <<pc, ser_config, ser_call, ser_result, writer, de_call, de_result>>
    /\ UNCHANGED <<codec_vars, field_vars, version_vars>>

DeNewWithoutConformance ==
    /\ pc = "serialized"
    /\ \E limit \in SizeLimits : deser_config' = new_without_conformance(limit)
    /\ UNCHANGED <<pc, ser_config, ser_call, ser_result, writer, de_call, de_result>>
    /\ UNCHANGED <<codec_vars, field_vars, version_vars>>

DeNewUnsafe ==
    /\ pc = "serialized"
    /\ deser_config' = new_unsafe
    /\ UNCHANGED <<pc, ser_config, ser_call, ser_result, writer, de_call, de_result>>
    /\ UNCHANGED <<codec_vars, field_vars, version_vars>>

DeDisableSizeLimit ==
    /\ pc = "serialized"
    /\ deser_config' = DeserializationConfig_disable_size_limit(deser_config)
    /\ UNCHANGED <<pc, ser_config, ser_call, ser_result, writer, de_call, de_result>>
    /\ UNCHANGED <<codec_vars, field_vars, version_vars>>

DeDisableHeaderValidation ==
    /\ pc = "serialized"
    /\ deser_config' = disable_header_validation(deser_config)
    /\ UNCHANGED <<pc, ser_config, ser_call, ser_result, writer, de_call, de_result>>
    /\ UNCHANGED <<codec_vars, field_vars, version_vars>>

DeDisableConformanceCheck ==
    /\ pc = "serialized"
    /\ deser_config' = disable_conformance_check(deser_config)
    /\ UNCHANGED <<pc, ser_config, ser_call, ser_result, writer, de_call, de_result>>
    /\ UNCHANGED <<codec_vars, field_vars, version_vars>>

\* the reader is given the bytes the writer received
DeserializeFrom ==
    /\ pc = "serialized"
    /\ \E build \in Builds, T \in TypeNames, reinterpret \in BOOLEAN :
         /\ de_call' = [T |-> T, build |-> build]
         /\ de_result' = deserialize_from(deser_config, build, T, writer, reinterpret)
    /\ pc' = "done"
    /\ UNCHANGED <<ser_config, deser_config, ser_call, ser_result, writer>>
    /\ UNCHANGED <<codec_vars, field_vars, version_vars>>

Next ==
    \/ SerNew
    \/ SerNewWithUnlimitedSize
    \/ SerDisableSizeLimit
    \/ SerDisableVersioning
    \/ SerializeInto
    \/ DeNew
    \/ DeNewWithUnlimitedSize
    \/ DeNewWithoutConformance
    \/ DeNewUnsafe
    \/ DeDisableSizeLimit
    \/ DeDisableHeaderValidation
    \/ DeDisableConformanceCheck
    \/ DeserializeFrom

Spec == Init /\ [][Next]_vars

---------------------------------------------------------------------------
(* Artifacts of other format versions: the bytes come from an implementation *)
(* whose SERIALIZATION_VERSION may be another one, and are deserialized by   *)
(* the running build                                                        *)

\* the header_version values a received header can carry
HeaderVersions == {SERIALIZATION_VERSION, "0.4"}

\* the configurations of the producer: a limit that lets every object through
ArtifactConfigs ==
    {SerializationConfig_new(HEADER_LENGTH_LIMIT + SmallLimit),
     disable_versioning(SerializationConfig_new(HEADER_LENGTH_LIMIT + SmallLimit))}

\* the bytes of serialize_into with the header_version of the producer
WithHeaderVersion(written, header_version) ==
    [i \in 1..Len(written) |->
        IF i = 1 THEN [written[i] EXCEPT !.header.header_version = header_version]
        ELSE written[i]]

ReceiveArtifact ==
    /\ pc = "configure"
    /\ \E config \in ArtifactConfigs, build \in ProducerBuilds, object \in Objects,
          header_version \in HeaderVersions :
         LET out == serialize_into(config, build, object)
         IN  /\ out.result = "Ok"
             /\ ser_config' = config
             /\ ser_call' = [object |-> object, build |-> build]
             /\ ser_result' = out.result
             /\ writer' = WithHeaderVersion(out.written, header_version)
    /\ pc' = "serialized"
    /\ UNCHANGED <<deser_config, de_call, de_result>>
    /\ UNCHANGED <<codec_vars, field_vars, version_vars>>

ArtifactNext ==
    \/ ReceiveArtifact
    \/ DeNewWithoutConformance
    \/ DeDisableHeaderValidation
    \/ DeserializeFrom

ArtifactSpec == Init /\ [][ArtifactNext]_vars

---------------------------------------------------------------------------

(* The point codec as a state machine: a point is converted to its          *)
(* serializable form, or a serializable form arrives from the wire, and is  *)
(* converted back                                                           *)

FieldElements == 0..(FieldModulus - 1)

\* every value an Affine<C> can hold: the identity and any pair of coordinates
AffinePoints == {zero} \cup {new_unchecked(x, y) : x \in FieldElements, y \in FieldElements}

\* limb vectors as they can arrive from the wire: any length up to N + 1
RECURSIVE LimbVectors(_)
LimbVectors(len) ==
    IF len = 0 THEN {<<>>}
    ELSE {Append(v, l) : v \in LimbVectors(len - 1), l \in 0..(FpLimbBase - 1)}

WireFps == {[val |-> v] : v \in LimbVectors(FpLimbs - 1) \cup LimbVectors(FpLimbs)
                                  \cup LimbVectors(FpLimbs + 1)}

\* uncompressed forms from the wire: well-sized coordinates, or one wrong-sized one
WireAffines ==
    {Infinity}
      \cup {Compressed(x, b) : x \in WireFps, b \in BOOLEAN}
      \cup {Uncompressed(x, y) : x \in WireFps, y \in {[val |-> v] : v \in LimbVectors(FpLimbs)}}
      \cup {Uncompressed(x, y) : x \in {[val |-> v] : v \in LimbVectors(FpLimbs)}, y \in WireFps}

CodecInit ==
    /\ pc = "codec"
    /\ ser_config = SerializationConfig_new_with_unlimited_size
    /\ deser_config = new_unsafe
    /\ ser_call = NoSerCall
    /\ ser_result = "None"
    /\ writer = <<>>
    /\ de_call = NoDeCall
    /\ de_result = NoDeResult
    /\ InitCodecIdle
    /\ InitFieldIdle
    /\ InitVersionIdle

ToCompressed ==
    /\ pc = "codec"
    /\ point_result = NoPoint
    /\ ser_point = NoPoint
    /\ \E value \in AffinePoints :
         /\ point' = value
         /\ ser_point' = compressed(value)
    /\ UNCHANGED point_result
    /\ UNCHANGED <<env_vars, field_vars, version_vars>>

ToUncompressed ==
    /\ pc = "codec"
    /\ point_result = NoPoint
    /\ ser_point = NoPoint
    /\ \E value \in AffinePoints :
         /\ point' = value
         /\ ser_point' = uncompressed(value)
    /\ UNCHANGED point_result
    /\ UNCHANGED <<env_vars, field_vars, version_vars>>

FromWire ==
    /\ pc = "codec"
    /\ point_result = NoPoint
    /\ ser_point = NoPoint
    /\ \E value \in WireAffines : ser_point' = value
    /\ UNCHANGED <<point, point_result>>
    /\ UNCHANGED <<env_vars, field_vars, version_vars>>

TryFromAffine ==
    /\ pc = "codec"
    /\ ser_point # NoPoint
    /\ point_result = NoPoint
    /\ point_result' = Affine_try_from(ser_point)
    /\ UNCHANGED <<point, ser_point>>
    /\ UNCHANGED <<env_vars, field_vars, version_vars>>

CodecNext ==
    \/ ToCompressed
    \/ ToUncompressed
    \/ FromWire
    \/ TryFromAffine

CodecSpec == CodecInit /\ [][CodecNext]_vars

---------------------------------------------------------------------------
(* The field codec as a state machine: a field element is converted to its  *)
(* serializable form, or limbs (or public parameters) arrive from the wire, *)
(* and are converted back                                                   *)

\* a hash as it can arrive from the wire: one byte short, right, one byte long
WireHashes == {[i \in 1..len |-> 0] : len \in (HashLen - 1)..(HashLen + 1)}

WirePublicParams == {[hashes |-> h] : h \in [1..Len(HashFields) -> WireHashes]}

FieldInit ==
    /\ pc = "field"
    /\ InitEnvelopeIdle
    /\ InitCodecIdle
    /\ InitFieldIdle
    /\ InitVersionIdle

FpToSerializable ==
    /\ pc = "field"
    /\ fp = NoValue /\ ser_fp = NoValue /\ ser_params = NoValue
    /\ \E value \in FieldElements :
         /\ fp' = [tag |-> "Fp", value |-> value]
         /\ ser_fp' = SerializableFp_from(value)
    /\ UNCHANGED <<fp_result, ser_params, params_result>>
    /\ UNCHANGED <<env_vars, codec_vars, version_vars>>

FpFromWire ==
    /\ pc = "field"
    /\ fp = NoValue /\ ser_fp = NoValue /\ ser_params = NoValue
    /\ \E value \in WireFps : ser_fp' = value
    /\ UNCHANGED <<fp, fp_result, ser_params, params_result>>
    /\ UNCHANGED <<env_vars, codec_vars, version_vars>>

FpTryFrom ==
    /\ pc = "field"
    /\ ser_fp # NoValue
    /\ fp_result = NoValue
    /\ fp_result' = Fp_try_from(ser_fp)
    /\ UNCHANGED <<fp, ser_fp, ser_params, params_result>>
    /\ UNCHANGED <<env_vars, codec_vars, version_vars>>

PublicParamsFromWire ==
    /\ pc = "field"
    /\ fp = NoValue /\ ser_fp = NoValue /\ ser_params = NoValue
    /\ \E value \in WirePublicParams : ser_params' = value
    /\ UNCHANGED <<fp, ser_fp, fp_result, params_result>>
    /\ UNCHANGED <<env_vars, codec_vars, version_vars>>

PublicParamsTryFrom ==
    /\ pc = "field"
    /\ ser_params # NoValue
    /\ params_result = NoValue
    /\ params_result' = PublicParams_try_from(ser_params)
    /\ UNCHANGED <<fp, ser_fp, fp_result, ser_params>>
    /\ UNCHANGED <<env_vars, codec_vars, version_vars>>

FieldNext ==
    \/ FpToSerializable
    \/ FpFromWire
    \/ FpTryFrom
    \/ PublicParamsFromWire
    \/ PublicParamsTryFrom

FieldSpec == FieldInit /\ [][FieldNext]_vars

---------------------------------------------------------------------------

(* The versioning engine (tfhe-versionable) over the dispatch enums of       *)
(* core_crypto/backward_compatibility/entities and of                       *)
(* tfhe-zk-pok/src/backward_compatibility                                   *)

\* sizes of the keyswitch keys that are explored
MaxLevels == 2
MaxInputDimension == 2
LweSizes == {1, 2}
DecompositionBaseLogs == {1, 2}
CiphertextModuli == {"Native", "PowerOfTwo"}
CompressionSeeds == {0, 1}

\* the variants of a dispatch enum with the order of two of them exchanged
LweKeyswitchKeyVersions_exchanged == <<"LweKeyswitchKey", "LweKeyswitchKeyV0">>

\* enum LweKeyswitchKeyVersions: the type held by V0, V1
LweKeyswitchKeyVersions == <<"LweKeyswitchKeyV0", "LweKeyswitchKey">>

\* enum SeededLweKeyswitchKeyVersions: the type held by V0, V1
SeededLweKeyswitchKeyVersions == <<"SeededLweKeyswitchKeyV0", "SeededLweKeyswitchKey">>

\* the dispatch enums of tfhe-zk-pok: each has the single variant V0
ZkPokVersions ==
    [SerializableAffine |-> <<"SerializableAffine">>,
     SerializableFp |-> <<"SerializableFp">>,
     SerializableQuadExtField |-> <<"SerializableQuadExtField">>,
     SerializableCubicExtField |-> <<"SerializableCubicExtField">>,
     Proof |-> <<"Proof">>,
     GroupElements |-> <<"GroupElements">>,
     SerializablePublicParams |-> <<"SerializablePublicParams">>]

\* the dispatch enum of a structure
Dispatch(structure) ==
    IF structure = "LweKeyswitchKey" THEN LweKeyswitchKeyVersions
    ELSE IF structure = "SeededLweKeyswitchKey" THEN SeededLweKeyswitchKeyVersions
    ELSE ZkPokVersions[structure]

\* the levels of every block of a keyswitch key in reverse order; a block is
\* level_count levels of level_size elements each
reverse_levels(data, level_count, level_size) ==
    LET block_size == level_count * level_size
    IN  [i \in 1..Len(data) |->
            LET block == (i - 1) \div block_size
                level == ((i - 1) % block_size) \div level_size
                offset == (i - 1) % level_size
            IN  data[block * block_size + (level_count - 1 - level) * level_size + offset + 1]]

\* lwe_keyswitch_key_data_compatibility_reverse_levels(&mut ksk): a level of
\* a block is one LWE ciphertext of output_lwe_size elements
lwe_keyswitch_key_data_compatibility_reverse_levels(ksk) ==
    [ksk EXCEPT !.data = reverse_levels(ksk.data, ksk.decomp_level_count, ksk.output_lwe_size)]

\* LweKeyswitchKey::from_container
LweKeyswitchKey_from_container(container, decomp_base_log, decomp_level_count, output_lwe_size, ciphertext_modulus) ==
    [data |-> container, decomp_base_log |-> decomp_base_log,
     decomp_level_count |-> decomp_level_count, output_lwe_size |-> output_lwe_size,
     ciphertext_modulus |-> ciphertext_modulus]

\* SeededLweKeyswitchKey::from_container_impl: a level of a block is the one
\* body element of a seeded ciphertext; the last argument asks for the levels
\* to be reversed
SeededLweKeyswitchKey_from_container_impl(container, decomp_base_log, decomp_level_count, output_lwe_size, compression_seed, ciphertext_modulus, reverse) ==
    [data |-> IF reverse THEN reverse_levels(container, decomp_level_count, 1)
              ELSE container,
     decomp_base_log |-> decomp_base_log,
     decomp_level_count |-> decomp_level_count, output_lwe_size |-> output_lwe_size,
     compression_seed |-> compression_seed, ciphertext_modulus |-> ciphertext_modulus]

UpgradeOk(value) == [ok |-> TRUE, value |-> value]

\* the upgrade of LweKeyswitchKeyV0 leaving the data as it is
LweKeyswitchKeyV0_upgrade_as_is(v0) ==
    UpgradeOk(LweKeyswitchKey_from_container(v0.data, v0.decomp_base_log,
                                             v0.decomp_level_count, v0.output_lwe_size,
                                             v0.ciphertext_modulus))

\* Upgrade<LweKeyswitchKey<C>> for LweKeyswitchKeyV0<C>, Error = Infallible
LweKeyswitchKeyV0_upgrade(v0) ==
    LET new_ksk == LweKeyswitchKey_from_container(v0.data, v0.decomp_base_log,
                                                  v0.decomp_level_count, v0.output_lwe_size,
                                                  v0.ciphertext_modulus)
    IN  UpgradeOk(lwe_keyswitch_key_data_compatibility_reverse_levels(new_ksk))

\* Upgrade<SeededLweKeyswitchKey<C>> for SeededLweKeyswitchKeyV0<C>, Error = Infallible
SeededLweKeyswitchKeyV0_upgrade(v0) ==
    UpgradeOk(SeededLweKeyswitchKey_from_container_impl(
                  v0.data, v0.decomp_base_log, v0.decomp_level_count, v0.output_lwe_size,
                  v0.compression_seed, v0.ciphertext_modulus, TRUE))

\* the upgrade step registered for a variant of a dispatch enum
upgrade(structure, tag, payload) ==
    IF structure = "LweKeyswitchKey" /\ tag = 0 THEN LweKeyswitchKeyV0_upgrade(payload)
    ELSE IF structure = "SeededLweKeyswitchKey" /\ tag = 0
    THEN SeededLweKeyswitchKeyV0_upgrade(payload)
    ELSE [ok |-> FALSE, value |-> payload]

\* Versionize::versionize: the last variant of the dispatch enum
versionize(structure, value) ==
    [structure |-> structure, tag |-> Len(Dispatch(structure)) - 1, payload |-> value]

\* Unversionize::unversionize: the payload of the last variant as it is, the
\* payload of an older variant through its upgrade and then that of the next
RECURSIVE unversionize_from(_, _, _, _)
unversionize_from(structure, tag, payload, upgrades) ==
    IF tag = Len(Dispatch(structure)) - 1
    THEN [ok |-> TRUE, value |-> payload, upgrades |-> upgrades]
    ELSE LET next == upgrade(structure, tag, payload)
         IN  IF ~next.ok THEN [ok |-> FALSE, value |-> payload, upgrades |-> upgrades]
             ELSE unversionize_from(structure, tag + 1, next.value, upgrades + 1)

unversionize(tagged) == unversionize_from(tagged.structure, tagged.tag, tagged.payload, 0)

---------------------------------------------------------------------------
(* The versioning engine as a state machine: a current value is versionized, *)
(* or a tagged value written by an older build is read, and is unversionized *)

\* the data of a key: every element distinct, so that any reordering shows
KeyData(len) == {[i \in 1..len |-> i + first] : first \in {0, 10}}

\* the keyswitch keys a build can produce, in the fields of LweKeyswitchKeyV0
\* (which are those of LweKeyswitchKey)
LweKeyswitchKeys ==
    UNION {{[data |-> data, decomp_base_log |-> base_log, decomp_level_count |-> levels,
             output_lwe_size |-> lwe_size, ciphertext_modulus |-> modulus] :
              data \in KeyData(dimension * levels * lwe_size),
              base_log \in DecompositionBaseLogs, modulus \in CiphertextModuli} :
           dimension \in 1..MaxInputDimension, levels \in 1..MaxLevels, lwe_size \in LweSizes}

\* the same for SeededLweKeyswitchKeyV0 and SeededLweKeyswitchKey
SeededLweKeyswitchKeys ==
    UNION {{[data |-> data, decomp_base_log |-> base_log, decomp_level_count |-> levels,
             output_lwe_size |-> lwe_size, compression_seed |-> seed,
             ciphertext_modulus |-> modulus] :
              data \in KeyData(dimension * levels),
              base_log \in DecompositionBaseLogs, modulus \in CiphertextModuli,
              seed \in CompressionSeeds} :
           dimension \in 1..MaxInputDimension, levels \in 1..MaxLevels, lwe_size \in LweSizes}

KeyStructures == {"LweKeyswitchKey", "SeededLweKeyswitchKey"}
Structures == KeyStructures \cup {"SerializableFp", "SerializableAffine"}

\* the values of a structure (the historical shapes of the keys have the
\* fields of the current one)
ValuesOf(structure) ==
    IF structure = "LweKeyswitchKey" THEN LweKeyswitchKeys
    ELSE IF structure = "SeededLweKeyswitchKey" THEN SeededLweKeyswitchKeys
    ELSE IF structure = "SerializableFp" THEN {SerializableFp_from(v) : v \in FieldElements}
    ELSE {compressed(p) : p \in AffinePoints} \cup {uncompressed(p) : p \in AffinePoints}

VersionInit ==
    /\ pc = "version"
    /\ InitEnvelopeIdle
    /\ InitCodecIdle
    /\ InitFieldIdle
    /\ InitVersionIdle

\* the current build versionizes a value
VersionizeValue ==
    /\ pc = "version"
    /\ ver_value = NoValue
    /\ \E structure \in Structures : \E value \in ValuesOf(structure) :
         /\ ver_value' = [origin |-> "versionize", structure |-> structure, value |-> value]
         /\ ver_tagged' = versionize(structure, value)
    /\ UNCHANGED ver_result
    /\ UNCHANGED <<env_vars, codec_vars, field_vars>>

\* a tagged value that a build whose current shape was V0 wrote is read
ReadHistoricalValue ==
    /\ pc = "version"
    /\ ver_value = NoValue
    /\ \E structure \in KeyStructures : \E value \in ValuesOf(structure) :
         /\ ver_value' = [origin |-> "historical", structure |-> structure, value |-> value]
         /\ ver_tagged' = [structure |-> structure, tag |-> 0, payload |-> value]
    /\ UNCHANGED ver_result
    /\ UNCHANGED <<env_vars, codec_vars, field_vars>>

UnversionizeValue ==
    /\ pc = "version"
    /\ ver_tagged # NoValue
    /\ ver_result = NoValue
    /\ ver_result' = unversionize(ver_tagged)
    /\ UNCHANGED <<ver_value, ver_tagged>>
    /\ UNCHANGED <<env_vars, codec_vars, field_vars>>

VersionNext ==
    \/ VersionizeValue
    \/ ReadHistoricalValue
    \/ UnversionizeValue

VersionSpec == VersionInit /\ [][VersionNext]_vars

---------------------------------------------------------------------------

(* Properties of the envelope (checked under Spec)                          *)

Ran(stage) == \E i \in 1..Len(de_result.stages) : de_result.stages[i] = stage

SameImplementation(a, b) ==
    a.crate_version = b.crate_version /\ a.versioning_version = b.versioning_version

\* the bytes serialize_into produced: a complete artifact
Produced == pc # "configure" /\ ser_result = "Ok"

\* the size in bytes of the payload serialize_into was asked to write
AttemptedPayloadSize == PayloadSegment(ser_config, ser_call.object).size

\* C1: with header validation enabled, bytes produced by serialize_into for a
\* type named T pass header validation when the requested type has T's name
\* (same implementation), and deserialize_from returns the header-mismatch
\* error (expected type / got type) when the requested name differs.
C1_HeaderIntegrity ==
    (pc = "done" /\ Produced /\ deser_config.validate_header
        /\ SameImplementation(ser_call.build, de_call.build))
    => IF de_call.T = ser_call.object.name
       THEN Ran("validate") /\ de_result.header_check.ok
       ELSE /\ de_result.status = "Err"
            /\ de_result.error = "TypeMismatch"
            /\ de_result.header_check.expected = de_call.T
            /\ de_result.header_check.got = ser_call.object.name

\* C2: for every nonzero limit L, an artifact whose payload is at least L + 1
\* bytes is never accepted, neither by serialize_into with limit L nor by
\* deserialize_from with limit L.
C2_OversizedNeverAccepted ==
    /\ (pc # "configure" /\ ser_config.serialized_size_limit # 0
          /\ AttemptedPayloadSize >= ser_config.serialized_size_limit + 1)
       => ser_result # "Ok"
    /\ (pc = "done" /\ Produced /\ deser_config.serialized_size_limit # 0
          /\ writer[2].size >= deser_config.serialized_size_limit + 1)
       => de_result.status # "Ok"

\* C3: the limit bounds the payload without the header on both sides: for a
\* nonzero limit L (here at least the header ceiling) and a payload of at most
\* L bytes, serialize_into with limit L succeeds and deserialize_from with the
\* same limit, type and implementation accepts the bytes when conformance is
\* satisfied or disabled.
C3_LimitsAgree ==
    (pc = "done"
        /\ ser_config.serialized_size_limit = deser_config.serialized_size_limit
        /\ ser_config.serialized_size_limit >= HEADER_LENGTH_LIMIT
        /\ AttemptedPayloadSize <= ser_config.serialized_size_limit
        /\ de_call.T = ser_call.object.name
        /\ SameImplementation(ser_call.build, de_call.build)
        /\ (deser_config.conformance.mode = "Checked"
              => is_conformant(ser_call.object, deser_config.conformance.parameter_set)))
    => (ser_result = "Ok" /\ de_result.status = "Ok")

ClampedBudget(config) ==
    LET limit == config.serialized_size_limit
        ceiling == DeserializationConfig_header_length_limit(config)
    IN  IF limit >= ceiling THEN U64(limit - ceiling) ELSE U64(0)

\* C4: for every caller limit L, the payload is decoded under the budget
\* max(0, L - header ceiling): the subtraction never wraps and never aborts
\* the call.
C4_BudgetClamped ==
    pc = "done"
    => /\ de_result.status # "Panic"
       /\ (de_result.budget # NoBudget => de_result.budget = ClampedBudget(deser_config))

\* C5: a size limit of zero means no limit: with serialized_size_limit = 0
\* neither serialize_into nor deserialize_from rejects a header or a payload
\* because of its size.
C5_ZeroMeansNoLimit ==
    /\ (pc # "configure" /\ ser_config.serialized_size_limit = 0)
       => ser_result # "SizeLimit"
    /\ (pc = "done" /\ deser_config.serialized_size_limit = 0)
       => ~(de_result.status = "Err" /\ de_result.error = "SizeLimit")

\* the header the reader was given
ReceivedHeader == writer[1].header

\* C6: with header validation enabled, an Unversioned artifact whose header
\* carries producer version A is rejected by deserialize_from running as
\* version B # A (by the producer-version check whenever the header is
\* validated), and when B = A header validation accepts it exactly when the
\* type name matches.
C6_UnversionedNeedsSameCrateVersion ==
    (pc = "done" /\ deser_config.validate_header /\ Len(writer) >= 1
        /\ ReceivedHeader.versioning_mode = "Unversioned")
    => IF ReceivedHeader.versioning_version # de_call.build.crate_version
       THEN /\ de_result.status = "Err"
            /\ Ran("validate") => de_result.error = "UnversionedFromOtherVersion"
       ELSE Ran("validate") => (de_result.header_check.ok <=> ReceivedHeader.name = de_call.T)

C6_Witness ==
    /\ pc = "done" /\ deser_config.validate_header /\ Produced
    /\ ReceivedHeader.versioning_mode = "Unversioned"
    /\ ReceivedHeader.versioning_version # de_call.build.crate_version
    /\ ReceivedHeader.name = de_call.T
    /\ de_result.status = "Err"
    /\ de_result.error = "UnversionedFromOtherVersion"

\* C7: with header validation enabled, a Versioned artifact with a matching
\* type name passes header validation iff the versioning-scheme version of its
\* header equals the running implementation's; the crate versions of producer
\* and reader play no part.
C7_VersionedNeedsSameScheme ==
    (pc = "done" /\ deser_config.validate_header /\ Ran("validate")
        /\ ReceivedHeader.versioning_mode = "Versioned"
        /\ ReceivedHeader.name = de_call.T)
    => (de_result.header_check.ok
          <=> ReceivedHeader.versioning_version = de_call.build.versioning_version)

C7_Witness ==
    /\ pc = "done" /\ deser_config.validate_header /\ Ran("validate") /\ Produced
    /\ ReceivedHeader.versioning_mode = "Versioned"
    /\ ReceivedHeader.name = de_call.T
    /\ ser_call.build.crate_version # de_call.build.crate_version
    /\ ReceivedHeader.versioning_version = de_call.build.versioning_version
    /\ de_result.header_check.ok

Admits(parameter_set, object) ==
    /\ parameter_set.num_elements_constraint.min <= object.num_elements
    /\ object.num_elements <= parameter_set.num_elements_constraint.max
    /\ parameter_set.shortint_params = object.shortint_params

\* C8: when a conformance parameter set p is supplied, deserialize_from
\* returns an object only if the object is conformant to p, and once the
\* payload is decoded (and upgraded) the call succeeds exactly for the
\* parameter sets whose size constraint admits the n elements of the list
\* (exact_size(k) iff k = n, size_in_range(a, b) iff a <= n <= b) and whose
\* other parameters match, with the conformance error otherwise, in both modes.
C8_ConformanceGate ==
    (pc = "done" /\ deser_config.conformance.mode = "Checked")
    => /\ de_result.status = "Ok"
            => /\ Ran("conformance")
               /\ Admits(deser_config.conformance.parameter_set, de_result.object)
       /\ (Produced /\ de_call.T = ser_call.object.name
             /\ Ran("payload_decode") /\ de_result.error \notin {"Io", "SizeLimit", "Malformed", "Upgrade"})
            => IF Admits(deser_config.conformance.parameter_set, ser_call.object)
               THEN de_result.status = "Ok" /\ de_result.object = ser_call.object
               ELSE de_result.status = "Err" /\ de_result.error = "NotConformant"

C8_Witness ==
    /\ pc = "done" /\ Produced /\ deser_config.conformance.mode = "Checked"
    /\ ser_call.object.num_elements = 3
    /\ ser_call.object.shortint_params = deser_config.conformance.parameter_set.shortint_params
    /\ deser_config.conformance.parameter_set.num_elements_constraint = size_in_range(4, 5)
    /\ ReceivedHeader.versioning_mode = "Versioned"
    /\ de_result.status = "Err"
    /\ de_result.error = "NotConformant"

---------------------------------------------------------------------------
(* Properties of the point codec (checked under CodecSpec)                   *)

ValidPoint(p) ==
    \/ p = zero
    \/ /\ ~p.infinity
       /\ p.x \in FieldElements /\ p.y \in FieldElements
       /\ is_on_curve(p.x, p.y)

\* C9: for every valid curve point p, converting compressed(p) back yields
\* exactly p: the identity goes to Infinity and back to the identity, and a
\* non-identity point comes back with the same x and the same y.
C9_CompressionRoundTrip ==
    (point # NoPoint /\ ValidPoint(point) /\ ser_point.tag # "Uncompressed")
    => /\ (point = zero <=> ser_point = Infinity)
       /\ point_result # NoPoint => point_result = AffineOk(point)

C9_Witness ==
    /\ point # NoPoint /\ ValidPoint(point) /\ ~point.infinity
    /\ point.y > FpNeg(point.y)
    /\ ser_point.tag = "Compressed"
    /\ point_result = AffineOk(point)

NoPointWithX(x) == \A y \in FieldElements : ~is_on_curve(x, y)

\* C10: decompressing Compressed{x, sign} whose x is the x-coordinate of no
\* point of the curve returns InvalidCompressedXCoordinate for both values of
\* the sign bit; a coordinate of the wrong size gives the other error, InvalidFp.
C10_InvalidXRejected ==
    (ser_point # NoPoint /\ ser_point.tag = "Compressed" /\ point_result # NoPoint)
    => /\ (Len(ser_point.x.val) = FpLimbs /\ NoPointWithX(BigInt(ser_point.x.val)))
            => point_result.tag = "Err" /\ point_result.error = "InvalidCompressedXCoordinate"
       /\ Len(ser_point.x.val) # FpLimbs
            => point_result.tag = "Err" /\ point_result.error = "InvalidFp"

C10_Witness ==
    /\ ser_point # NoPoint /\ ser_point.tag = "Compressed"
    /\ Len(ser_point.x.val) = FpLimbs /\ NoPointWithX(BigInt(ser_point.x.val))
    /\ ser_point.take_largest_y
    /\ point_result # NoPoint
    /\ point_result.error = "InvalidCompressedXCoordinate"

\* the point (x, -y)
Negated(p) == new_unchecked(p.x, FpNeg(p.y))

\* the larger of y and -y in the field's order
LargerOf(y) == IF y > FpNeg(y) THEN y ELSE FpNeg(y)

\* a compressed form of a non-identity point of the curve is held
CompressedValid ==
    /\ point # NoPoint /\ ValidPoint(point) /\ ~point.infinity
    /\ ser_point # NoPoint /\ ser_point.tag = "Compressed"

\* C11 as stated: for every non-identity point (x, y) of the curve the stored
\* sign says whether y is the larger of y and -y, deriving y back from
\* (x, sign) gives y, and compressing (x, -y) stores the opposite sign.
C11_CanonicalSign ==
    CompressedValid
    => /\ ser_point.take_largest_y = (point.y = LargerOf(point.y))
       /\ get_point_from_x_unchecked(point.x, ser_point.take_largest_y).point.y = point.y
       /\ compressed(Negated(point)).take_largest_y = ~ser_point.take_largest_y

\* C11 amended: the sign says whether y is strictly greater than -y and
\* deriving y back from (x, sign) gives y; compressing (x, -y) stores the
\* opposite sign when y # -y, and the same sign (false) for a point with
\* y = -y, which is its own negation.
C11_CanonicalSignStrict ==
    CompressedValid
    => /\ ser_point.take_largest_y = (point.y > FpNeg(point.y))
       /\ get_point_from_x_unchecked(point.x, ser_point.take_largest_y).point.y = point.y
       /\ point_result # NoPoint => point_result = AffineOk(point)
       /\ point.y # FpNeg(point.y)
            => compressed(Negated(point)).take_largest_y = ~ser_point.take_largest_y
       /\ point.y = FpNeg(point.y)
            => /\ ~ser_point.take_largest_y
               /\ compressed(Negated(point)) = ser_point

C11_Witness ==
    /\ CompressedValid
    /\ point.y # FpNeg(point.y)
    /\ ~ser_point.take_largest_y
    /\ compressed(Negated(point)).take_largest_y
    /\ point_result = AffineOk(point)

---------------------------------------------------------------------------
(* Properties of the versioning engine (checked under VersionSpec)           *)

\* the tag of the variant that holds the structure itself, its current shape
CurrentShapeTag(structure) ==
    CHOOSE tag \in 0..(Len(Dispatch(structure)) - 1) : Dispatch(structure)[tag + 1] = structure

\* C12: versionize(x) always carries the tag of the current shape of the
\* structure; unversionize of a value tagged with the current shape returns
\* the payload unchanged and applies no upgrade; unversionize(versionize(x)) = x.
C12_CurrentShapeRoundTrip ==
    /\ (ver_value # NoValue /\ ver_value.origin = "versionize")
         => /\ ver_tagged.tag = CurrentShapeTag(ver_value.structure)
            /\ ver_tagged.tag = Len(Dispatch(ver_value.structure)) - 1
            /\ ver_tagged.payload = ver_value.value
            /\ ver_result # NoValue => (ver_result.ok /\ ver_result.value = ver_value.value)
    /\ (ver_result # NoValue /\ ver_tagged.tag = CurrentShapeTag(ver_tagged.structure))
         => /\ ver_result.ok
            /\ ver_result.value = ver_tagged.payload
            /\ ver_result.upgrades = 0

C12_Witness ==
    /\ ver_value # NoValue /\ ver_value.origin = "versionize"
    /\ ver_value.structure = "LweKeyswitchKey"
    /\ ver_value.value.decomp_level_count > 1
    /\ ver_tagged.tag = 1
    /\ ver_result # NoValue /\ ver_result.ok
    /\ ver_result.value = ver_value.value

\* position of an element of a key: block, level of the block, offset in the level
ElementAt(block, level, offset, level_count, level_size) ==
    block * level_count * level_size + level * level_size + offset + 1

LevelSize(structure, key) ==
    IF structure = "LweKeyswitchKey" THEN key.output_lwe_size ELSE 1

LevelsReversed(structure, old, new) ==
    LET level_count == old.decomp_level_count
        level_size == LevelSize(structure, old)
        blocks == Len(old.data) \div (level_count * level_size)
    IN  /\ Len(new.data) = Len(old.data)
        /\ \A block \in 0..(blocks - 1), level \in 0..(level_count - 1),
              offset \in 0..(level_size - 1) :
              new.data[ElementAt(block, level, offset, level_count, level_size)]
                = old.data[ElementAt(block, level_count - 1 - level, offset,
                                     level_count, level_size)]

---------------------------------------------------------------------------
(* Properties of the field codec (checked under FieldSpec)                   *)

FpDecoded == ser_fp # NoValue /\ fp_result # NoValue

\* C14: decoding a limb sequence into a field element of N limbs succeeds
\* exactly when the sequence holds N limbs and fails (with the array size
\* error, the only error of the conversion) otherwise; decode(encode(f)) = f
\* for every field element f.
C14_FpLimbCount ==
    FpDecoded
    => /\ fp_result.ok <=> Len(ser_fp.val) = FpLimbs
       /\ fp_result.ok => fp_result.fp = BigInt(ser_fp.val)
       /\ fp # NoValue => (fp_result.ok /\ fp_result.fp = fp.value)

C14_Witness ==
    /\ FpDecoded
    /\ fp # NoValue /\ fp.value = FieldModulus - 1
    /\ Len(ser_fp.val) = FpLimbs
    /\ fp_result.ok /\ fp_result.fp = fp.value

\* the first hash of the wrong size, in conversion order
FirstWrongHash ==
    CHOOSE i \in 1..Len(HashFields) :
        /\ Len(ser_params.hashes[i]) # HashLen
        /\ \A j \in 1..(i - 1) : Len(ser_params.hashes[j]) = HashLen

\* C15: when a sequence of m elements is converted to an array of N elements
\* and m # N, the error reports expected length N and found length m, for
\* the limbs of a field element and for the hash arrays of PublicParams.
C15_ErrorLengths ==
    /\ (FpDecoded /\ ~fp_result.ok)
         => /\ fp_result.expected_len = FpLimbs
            /\ fp_result.found_len = Len(ser_fp.val)
    /\ (ser_params # NoValue /\ params_result # NoValue /\ ~params_result.ok)
         => /\ params_result.expected_len = HashLen
            /\ params_result.found_len = Len(ser_params.hashes[FirstWrongHash])

\* C16: every field element that decoding produces is below the modulus: a
\* limb sequence of the right length whose value is the modulus or more is
\* never returned as a field element.
C16_BelowModulus ==
    (FpDecoded /\ fp_result.ok) => fp_result.fp < FieldModulus

---------------------------------------------------------------------------
(* Properties of the stages of deserialize_from (checked under Spec)         *)

IsPrefix(s, t) == Len(s) <= Len(t) /\ SubSeq(t, 1, Len(s)) = s

\* the stages the call is configured to run, in the order of the envelope
EnabledStages ==
    <<"header_decode">>
      \o (IF deser_config.validate_header THEN <<"validate">> ELSE <<>>)
      \o <<"payload_decode">>
      \o (IF Len(writer) >= 1 /\ ReceivedHeader.versioning_mode = "Versioned"
          THEN <<"unversionize">> ELSE <<>>)
      \o (IF deser_config.conformance.mode = "Checked" THEN <<"conformance">> ELSE <<>>)

\* the errors a stage can end the call with
StageErrors(stage) ==
    IF stage = "header_decode" THEN {"Io", "SizeLimit"}
    ELSE IF stage = "validate"
    THEN {"VersioningSchemeMismatch", "UnversionedFromOtherVersion", "TypeMismatch"}
    ELSE IF stage = "payload_decode" THEN {"Io", "SizeLimit", "Malformed"}
    ELSE IF stage = "unversionize" THEN {"Upgrade"}
    ELSE {"NotConformant"}

LastStage == de_result.stages[Len(de_result.stages)]

\* C17: deserialize_from runs its stages in the order header decode, header
\* validation (if enabled), payload decode, upgrade (Versioned only),
\* conformance (if enabled); the first stage that fails ends the call with
\* its error and no later stage runs; conformance runs only after the payload
\* has been decoded and upgraded; an object is returned only when every
\* enabled stage has succeeded.
C17_StageOrder ==
    pc = "done"
    => /\ Len(de_result.stages) >= 1
       /\ IsPrefix(de_result.stages, EnabledStages)
       /\ de_result.status = "Ok"
            => /\ de_result.stages = EnabledStages
               /\ de_result.object # NoObject
               /\ deser_config.validate_header
                    => validate(de_call.build, ReceivedHeader, de_call.T).ok
               /\ deser_config.conformance.mode = "Checked"
                    => is_conformant(de_result.object, deser_config.conformance.parameter_set)
       /\ de_result.status # "Ok" => de_result.object = NoObject
       /\ de_result.status = "Err" => de_result.error \in StageErrors(LastStage)
       /\ (Ran("validate") /\ ~validate(de_call.build, ReceivedHeader, de_call.T).ok)
            => /\ de_result.status = "Err"
               /\ LastStage = "validate"
               /\ de_result.error = validate(de_call.build, ReceivedHeader, de_call.T).error
       /\ Ran("conformance")
            => /\ Ran("payload_decode")
               /\ ReceivedHeader.versioning_mode = "Versioned" => Ran("unversionize")

C17_Witness ==
    /\ pc = "done"
    /\ de_result.stages =
         <<"header_decode", "validate", "payload_decode", "unversionize", "conformance">>
    /\ de_result.status = "Err"
    /\ de_result.error = "NotConformant"
    /\ de_result.object = NoObject

HeaderMismatchErrors ==
    {"VersioningSchemeMismatch", "UnversionedFromOtherVersion", "TypeMismatch"}

\* the payload was decoded (the call ended with the object or at conformance)
PayloadDecoded ==
    \/ de_result.status = "Ok"
    \/ de_result.status = "Err" /\ de_result.error = "NotConformant"

\* C19: with header validation disabled, deserialize_from never fails for a
\* mismatch of type name, versioning scheme or producer version (validation
\* is not run at all), and the payload is still decoded in the mode the
\* header carries: through the versioned form and unversionize for a
\* Versioned header, raw for an Unversioned one.
C19_ValidationDisabled ==
    (pc = "done" /\ ~deser_config.validate_header)
    => /\ ~Ran("validate")
       /\ de_result.error \notin HeaderMismatchErrors
       /\ de_result.header_check = HeaderOk
       /\ PayloadDecoded
            => (Ran("unversionize") <=> ReceivedHeader.versioning_mode = "Versioned")

C19_Witness ==
    /\ pc = "done" /\ ~deser_config.validate_header
    /\ Len(writer) >= 1
    /\ ~validate(de_call.build, ReceivedHeader, de_call.T).ok
    /\ ReceivedHeader.name # de_call.T
    /\ ReceivedHeader.versioning_mode = "Versioned"
    /\ de_result.status = "Ok"
    /\ Ran("unversionize")

---------------------------------------------------------------------------
(* Properties of the uncompressed form (checked under CodecSpec)             *)

\* an uncompressed form whose two coordinates have the right number of limbs
\* has been converted
UncompressedConverted ==
    /\ ser_point # NoPoint /\ ser_point.tag = "Uncompressed"
    /\ Len(ser_point.x.val) = FpLimbs /\ Len(ser_point.y.val) = FpLimbs
    /\ point_result # NoPoint

\* C18: converting Uncompressed{x, y} to a point validates nothing about the
\* curve: it succeeds for every pair of coordinates of the right limb count,
\* on the curve or not, and returns exactly the point with those coordinates;
\* uncompressed(p) stores x and y unchanged for a non-identity point and
\* Infinity for the identity.
C18_UncompressedUnchecked ==
    /\ UncompressedConverted
         => /\ point_result.tag = "Ok"
            /\ ~point_result.point.infinity
            /\ point_result.point.x = BigInt(ser_point.x.val)
            /\ point_result.point.y = BigInt(ser_point.y.val)
    /\ (point # NoPoint /\ ser_point # NoPoint /\ ser_point.tag # "Compressed")
         => /\ point.infinity <=> ser_point = Infinity
            /\ ~point.infinity
                 => /\ ser_point.x.val = to_vec(point.x)
                    /\ ser_point.y.val = to_vec(point.y)
                    /\ BigInt(ser_point.x.val) = point.x
                    /\ BigInt(ser_point.y.val) = point.y
            /\ point_result # NoPoint => point_result = AffineOk(point)

C18_Witness ==
    /\ UncompressedConverted
    /\ point = NoPoint
    /\ ~is_on_curve(BigInt(ser_point.x.val), BigInt(ser_point.y.val))
    /\ BigInt(ser_point.y.val) >= FieldModulus
    /\ point_result.tag = "Ok"
    /\ point_result.point.x = BigInt(ser_point.x.val)
    /\ point_result.point.y = BigInt(ser_point.y.val)

---------------------------------------------------------------------------
(* Properties of the configuration builders (checked under Spec)             *)

\* the configuration is one that DeserializationConfig::new returns
ReturnedByDeNew(config) ==
    \E p \in (IF config.conformance.mode = "Checked"
              THEN {config.conformance.parameter_set} ELSE ConformanceParams) :
        config = DeserializationConfig_new(config.serialized_size_limit, p)

\* C20: in any sequence of builder calls each builder changes its own
\* setting only. SerializationConfig: new defaults to Versioned,
\* disable_versioning leaves the size limit and disable_size_limit leaves the
\* versioning mode. DeserializationConfig: new defaults to header validation
\* on and conformance checked, and disable_size_limit,
\* disable_header_validation and disable_conformance_check each leave the
\* other two settings as they were.
C20_BuildersChangeOwnSetting ==
    [][ /\ SerNew => ser_config'.versioned = "Versioned"
        /\ SerDisableVersioning
             => /\ ser_config'.versioned = "Unversioned"
                /\ ser_config'.serialized_size_limit = ser_config.serialized_size_limit
        /\ SerDisableSizeLimit
             => /\ ser_config'.serialized_size_limit = 0
                /\ ser_config'.versioned = ser_config.versioned
        /\ (pc = "serialized" /\ ReturnedByDeNew(deser_config'))
             => /\ deser_config'.validate_header
                /\ deser_config'.conformance.mode = "Checked"
        /\ DeDisableSizeLimit
             => /\ deser_config'.serialized_size_limit = 0
                /\ deser_config'.validate_header = deser_config.validate_header
                /\ deser_config'.conformance = deser_config.conformance
        /\ DeDisableHeaderValidation
             => /\ ~deser_config'.validate_header
                /\ deser_config'.serialized_size_limit = deser_config.serialized_size_limit
                /\ deser_config'.conformance = deser_config.conformance
        /\ DeDisableConformanceCheck
             => /\ deser_config'.conformance = Unchecked
                /\ deser_config'.serialized_size_limit = deser_config.serialized_size_limit
                /\ deser_config'.validate_header = deser_config.validate_header
      ]_vars

C20_Witness ==
    /\ pc = "serialized"
    /\ ser_config.versioned = "Unversioned"
    /\ ser_config.serialized_size_limit = SmallLimit
    /\ deser_config.serialized_size_limit = HEADER_LENGTH_LIMIT + SmallLimit
    /\ ~deser_config.validate_header
    /\ deser_config.conformance.mode = "Checked"

---------------------------------------------------------------------------
(* Properties of the header's format version (checked under ArtifactSpec)    *)

\* the versioning mode, versioning version and type name of the received
\* header are those the running build accepts for the requested type
HeaderAcceptable ==
    /\ ReceivedHeader.versioning_mode = "Versioned"
         => ReceivedHeader.versioning_version = de_call.build.versioning_version
    /\ ReceivedHeader.versioning_mode = "Unversioned"
         => ReceivedHeader.versioning_version = de_call.build.crate_version
    /\ ReceivedHeader.name = de_call.T

---------------------------------------------------------------------------
(* Properties of what serialize_into leaves in the writer (checked under Spec) *)

\* the header serialize_into built for the call
WrittenHeader == create_header(ser_config, ser_call.build, ser_call.object.name)

\* serialize_into failed on the payload: the header was within its ceiling
PayloadRefused ==
    /\ pc # "configure"
    /\ ser_result = "SizeLimit"
    /\ WithinLimit(U64(SerializationConfig_header_length_limit(ser_config)),
                   HeaderSize(WrittenHeader))

\* C22: serialize_into writes the header before the payload is checked
\* against the size limit: when the call fails because the payload exceeds
\* the limit, the writer has received the complete header and no byte of the
\* payload.
C22_HeaderWrittenBeforePayloadCheck ==
    PayloadRefused
    => /\ ~WithinLimit(U64(ser_config.serialized_size_limit), AttemptedPayloadSize)
       /\ Len(writer) = 1
       /\ writer[1].seg = "header"
       /\ writer[1].header = WrittenHeader
       /\ writer[1].size = HeaderSize(WrittenHeader)

C22_Witness ==
    /\ PayloadRefused
    /\ ser_config.serialized_size_limit = SmallLimit
    /\ Len(writer) = 1
    /\ writer[1].header = WrittenHeader
    /\ writer[1].header.versioning_mode = "Versioned"

====
